---- MODULE Spec2Model ----
(***************************************************************************)
(* A model of src/arch/windows_stub/pthread.cc: the POSIX threading API    *)
(* (pthread_create/join, mutex, condition variable, pthread_once) written  *)
(* on top of the Windows primitives CreateThread, WaitForSingleObject,     *)
(* CRITICAL_SECTION and CONDITION_VARIABLE.                                *)
(*                                                                         *)
(* Every pthread_* function is translated statement by statement.  The     *)
(* Windows primitives it calls are modelled by their documented behaviour  *)
(* (a critical section is owned by one thread and counts its recursive     *)
(* entries; SleepConditionVariableCS queues the caller and leaves the      *)
(* critical section in one step and enters it again before it returns;    *)
(* a wait on a thread handle is satisfied once the thread has ended).      *)
(* The callers are arbitrary client threads within the stated bounds.      *)
(***************************************************************************)
EXTENDS Integers, Sequences, FiniteSets, TLC

(***************************************************************************)
(* Bounds of the model.                                                    *)
(***************************************************************************)
NumThreads == 3       \* client threads of once / mutex / condition variable
MaxOnceCalls == 2     \* pthread_once calls per client thread
Rounds == 2           \* lock-increment-unlock rounds per client thread
MaxLocks == 2         \* pthread_mutex_lock calls of the condvar clients
MaxWaits == 2         \* pthread_cond_wait calls of the condvar clients
MaxWakes == 1         \* pthread_cond_signal + pthread_cond_broadcast calls
MaxSpurious == 1      \* spurious wakeups the OS produces
MaxSleepFails == 1    \* failures of SleepConditionVariableCS
MaxLoopLocks == 3     \* pthread_mutex_lock calls of the wait-loop clients
MaxItems == 1         \* items the producers make ready at a time
MaxRecursion == 2    \* nesting depth the re-locking client goes to
MaxCreates == 2       \* pthread_create calls (successful or not)
NumSlots == 1         \* pthread_t variables of the creating thread

Threads == 1..NumThreads
Creates == 1..MaxCreates
Slots == 1..NumSlots

(***************************************************************************)
(* Program constants.                                                      *)
(***************************************************************************)
EINVAL == 22
NULL == 0
WAIT_OBJECT_0 == 0
WAIT_FAILED == -1     \* (DWORD)0xFFFFFFFF: any result other than WAIT_OBJECT_0
NoOwner == 0
PTHREAD_ONCE_INIT == FALSE
PTHREAD_ONCE_COMPLETED == TRUE
NoRc == <<>>        \* no return code yet; a return code rc is kept as <<rc>>

VARIABLES
  pc,            \* pc[t]: where client thread t is inside the API
  \* ---- pthread_once
  complete,      \* the guard *complete
  initStarted,   \* number of times init() was entered
  initFinished,  \* number of times init() returned
  onceCalls,     \* onceCalls[t]: pthread_once calls made by t
  \* ---- CRITICAL_SECTION behind pthread_mutex_t
  csOwner,       \* owning thread, NoOwner when free
  csRecursion,   \* recursion count of the owner
  counter,       \* a shared counter the clients guard with the mutex
  tmp,           \* tmp[t]: the value t read from counter
  rounds,        \* rounds[t]: completed lock-increment-unlock rounds
  \* ---- CONDITION_VARIABLE behind pthread_cond_t
  waiters,       \* threads queued on the condition variable
  wakeCause,     \* wakeCause[t]: why t's sleep ended
  waitRc,        \* waitRc[t]: return code of t's last pthread_cond_wait
  waitLogged,    \* waitLogged[t]: whether that call logged anything
  pendingBcast,  \* waiters a broadcast found queued, not yet returned
  lastBcast,     \* the waiters the most recent broadcast found queued
  budget,        \* calls and OS events used up by the condvar clients
  \* ---- threads
  mpc,           \* where the creating/joining thread is
  cur,           \* its current call (once mpc is "idle" again: its last
                 \* call, with the return code rc and the stored *retval)
  slot,          \* slot[s]: the pthread_t variable s
  thr,           \* thr[k]: the thread made by the k-th pthread_create
  data,          \* data[k]: the heap record of the k-th pthread_create
  nCreates,      \* pthread_create calls so far
  aborted,       \* a failed assertion has halted the process
  \* ---- what the clients have done so far (read by no operation)
  joined,        \* handles a pthread_join has returned 0 on
  rejoined,      \* handles a pthread_join has returned 0 on more than once
  late,          \* threads whose current pthread_once call began after
                 \* some pthread_once call had returned
  signals,       \* number of pthread_cond_signal calls made
  lastDestroy,   \* the last pthread_mutex_destroy / pthread_cond_destroy
                 \* call: the object, whether it was in use, the return code
  misuse,        \* per thread, its pthread_mutex_unlock call made without
                 \* owning the mutex: "none", "calling" or "returned"
  items,         \* the state the mutex guards: items ready to be taken
  stage,         \* each thread's place in the wait-loop pattern: "out",
                 \* "in", "wait", "retest", "use", "consumed", "produced"
  rewaited       \* threads that woke with the predicate false and waited
                 \* again

onceVars == <<complete, initStarted, initFinished, onceCalls>>
mutexVars == <<csOwner, csRecursion>>
counterVars == <<counter, tmp, rounds>>
condVars == <<waiters, wakeCause, waitRc, waitLogged, pendingBcast, lastBcast, budget>>
threadVars == <<mpc, cur, slot, thr, data, nCreates, aborted>>
loopVars == <<items, stage, rewaited>>
histVars == <<joined, rejoined, late, signals, lastDestroy, misuse, loopVars>>
vars == <<pc, onceVars, mutexVars, counterVars, condVars, threadVars, histVars>>

(***************************************************************************)
(* pthread_once (lines 107-113).  The guard is a plain bool: the test of   *)
(* line 108, the store of line 109 and the call of line 110 are separate   *)
(* steps of the calling thread, and threads interleave between them.       *)
(***************************************************************************)
OnceCall(t) ==
  /\ pc[t] = "idle"
  /\ onceCalls[t] < MaxOnceCalls
  /\ onceCalls' = [onceCalls EXCEPT ![t] = @ + 1]
  /\ pc' = [pc EXCEPT ![t] = "once_test"]
  /\ UNCHANGED <<complete, initStarted, initFinished>>
  /\ UNCHANGED <<mutexVars, counterVars, condVars, threadVars>>

\* line 108: if (*complete == PTHREAD_ONCE_INIT)
pthread_once_test(t) ==
  /\ pc[t] = "once_test"
  /\ pc' = [pc EXCEPT ![t] = IF complete = PTHREAD_ONCE_INIT
                               THEN "once_store" ELSE "once_ret"]
  /\ UNCHANGED <<onceVars, mutexVars, counterVars, condVars, threadVars>>

\* a line 109 that stores nothing
pthread_once_store_nothing(t) ==
  /\ pc[t] = "once_store"
  /\ pc' = [pc EXCEPT ![t] = "once_call"]
  /\ UNCHANGED <<complete, initStarted, initFinished, onceCalls>>
  /\ UNCHANGED <<mutexVars, counterVars, condVars, threadVars>>

\* line 109: *complete = PTHREAD_ONCE_COMPLETED
pthread_once_store(t) ==
  /\ pc[t] = "once_store"
  /\ complete' = PTHREAD_ONCE_COMPLETED
  /\ pc' = [pc EXCEPT ![t] = "once_call"]
  /\ UNCHANGED <<initStarted, initFinished, onceCalls>>
  /\ UNCHANGED <<mutexVars, counterVars, condVars, threadVars>>

\* line 110: init() is entered ...
pthread_once_init_begin(t) ==
  /\ pc[t] = "once_call"
  /\ initStarted' = initStarted + 1
  /\ pc' = [pc EXCEPT ![t] = "once_in_init"]
  /\ UNCHANGED <<complete, initFinished, onceCalls>>
  /\ UNCHANGED <<mutexVars, counterVars, condVars, threadVars>>

\* ... and returns
pthread_once_init_end(t) ==
  /\ pc[t] = "once_in_init"
  /\ initFinished' = initFinished + 1
  /\ pc' = [pc EXCEPT ![t] = "once_ret"]
  /\ UNCHANGED <<complete, initStarted, onceCalls>>
  /\ UNCHANGED <<mutexVars, counterVars, condVars, threadVars>>

\* line 112: return 0
pthread_once_return(t) ==
  /\ pc[t] = "once_ret"
  /\ pc' = [pc EXCEPT ![t] = "idle"]
  /\ UNCHANGED <<onceVars, mutexVars, counterVars, condVars, threadVars>>

(***************************************************************************)
(* CRITICAL_SECTION, as pthread_mutex_lock / pthread_mutex_unlock use it   *)
(* (lines 57-65).  EnterCriticalSection returns when the section is free   *)
(* or already owned by the caller; LeaveCriticalSection decrements the     *)
(* recursion count and frees the section when it reaches zero.             *)
(***************************************************************************)
EnterCriticalSectionNoWait(t) ==
  /\ csOwner' = t
  /\ csRecursion' = IF csOwner = t THEN csRecursion + 1 ELSE 1

EnterCriticalSection(t) ==
  /\ csOwner \in {NoOwner, t}
  /\ csOwner' = t
  /\ csRecursion' = csRecursion + 1

LeaveCriticalSection(t) ==
  /\ csRecursion' = csRecursion - 1
  /\ csOwner' = IF csRecursion - 1 = 0 THEN NoOwner ELSE csOwner

\* lines 57-60
pthread_mutex_lock(t) ==
  /\ pc[t] = "lock"
  /\ EnterCriticalSection(t)
  /\ pc' = [pc EXCEPT ![t] = "held"]
  /\ UNCHANGED <<onceVars, counterVars, condVars, threadVars>>

\* lines 62-65
pthread_mutex_unlock(t) ==
  /\ pc[t] = "unlock"
  /\ LeaveCriticalSection(t)
  /\ pc' = [pc EXCEPT ![t] = "idle"]
  /\ UNCHANGED <<onceVars, counterVars, condVars, threadVars>>

(***************************************************************************)
(* Clients of the mutex: Rounds rounds of lock; counter++; unlock, the     *)
(* increment being a read and a write of the shared counter.               *)
(***************************************************************************)
RoundLockCall(t) ==
  /\ pc[t] = "idle"
  /\ rounds[t] < Rounds
  /\ pc' = [pc EXCEPT ![t] = "lock"]
  /\ UNCHANGED <<onceVars, mutexVars, counterVars, condVars, threadVars>>

RoundRead(t) ==
  /\ pc[t] = "held"
  /\ tmp' = [tmp EXCEPT ![t] = counter]
  /\ pc' = [pc EXCEPT ![t] = "incr"]
  /\ UNCHANGED <<counter, rounds>>
  /\ UNCHANGED <<onceVars, mutexVars, condVars, threadVars>>

RoundWrite(t) ==
  /\ pc[t] = "incr"
  /\ counter' = tmp[t] + 1
  /\ rounds' = [rounds EXCEPT ![t] = @ + 1]
  /\ pc' = [pc EXCEPT ![t] = "unlock"]
  /\ UNCHANGED tmp
  /\ UNCHANGED <<onceVars, mutexVars, condVars, threadVars>>

(***************************************************************************)
(* Clients that break the locking discipline: a thread that holds the      *)
(* mutex calls pthread_mutex_lock again, and a thread that does not own    *)
(* the mutex calls pthread_mutex_unlock (once per thread).                 *)
(***************************************************************************)
RelockCall(t) ==
  /\ pc[t] = "held"
  /\ csOwner = t
  /\ csRecursion < MaxRecursion
  /\ pc' = [pc EXCEPT ![t] = "lock"]
  /\ UNCHANGED histVars
  /\ UNCHANGED <<onceVars, mutexVars, counterVars, condVars, threadVars>>

NonOwnerUnlockCall(t) ==
  /\ pc[t] = "idle"
  /\ csOwner # t
  /\ misuse[t] = "none"
  /\ misuse' = [misuse EXCEPT ![t] = "calling"]
  /\ pc' = [pc EXCEPT ![t] = "unlock"]
  /\ UNCHANGED <<joined, rejoined, late, signals, lastDestroy, loopVars>>
  /\ UNCHANGED <<onceVars, mutexVars, counterVars, condVars, threadVars>>

(***************************************************************************)
(* CONDITION_VARIABLE, as pthread_cond_wait / signal / broadcast use it    *)
(* (lines 88-105).  SleepConditionVariableCS(cond, mutex, INFINITE) queues *)
(* the caller on the condition variable and leaves the critical section    *)
(* as one step, sleeps until it is woken, and enters the critical section  *)
(* again before it returns; it returns FALSE when the wait failed.         *)
(* WakeConditionVariable wakes one queued thread if there is one,          *)
(* WakeAllConditionVariable wakes every queued thread, and the OS may      *)
(* wake a queued thread on its own (a spurious wakeup).                    *)
(***************************************************************************)
SleepBegin(t) ==
  /\ waiters' = waiters \cup {t}
  /\ LeaveCriticalSection(t)

SleepEndNoEnter(t) == UNCHANGED mutexVars

SleepEnd(t) == EnterCriticalSection(t)

\* a WakeConditionVariable that wakes nobody
WakeConditionVariableNobody == {{}}

\* the sets of threads one call may wake
WakeConditionVariable ==
  IF waiters = {} THEN {{}} ELSE {{w} : w \in waiters}

WakeAllConditionVariableOnlyOne ==
  IF waiters = {} THEN {{}} ELSE {{w} : w \in waiters}

WakeAllConditionVariable == {waiters}

Wake(S, cause) ==
  /\ waiters' = waiters \ S
  /\ wakeCause' = [t \in Threads |-> IF t \in S THEN cause ELSE wakeCause[t]]
  /\ pc' = [t \in Threads |-> IF t \in S THEN "waking" ELSE pc[t]]

\* line 89, first half: the caller is queued and the mutex released
pthread_cond_wait_sleep(t) ==
  /\ pc[t] = "held"
  /\ budget.waits < MaxWaits
  /\ SleepBegin(t)
  /\ pc' = [pc EXCEPT ![t] = "sleeping"]
  /\ budget' = [budget EXCEPT !.waits = @ + 1]
  /\ wakeCause' = [wakeCause EXCEPT ![t] = "none"]
  /\ waitRc' = [waitRc EXCEPT ![t] = NoRc]
  /\ waitLogged' = [waitLogged EXCEPT ![t] = FALSE]
  /\ UNCHANGED <<pendingBcast, lastBcast>>
  /\ UNCHANGED <<onceVars, counterVars, threadVars>>

\* line 89: the BOOL SleepConditionVariableCS returns; FALSE only when the
\* wait failed (the timeout is INFINITE, so it never times out)
SleepResult(cause) == cause # "fail"

\* lines 90-94 with the branches swapped
CondWaitRcSwapped(res) == IF res THEN <<EINVAL>> ELSE <<0>>

\* lines 90-94: if (res) return 0; else return EINVAL
CondWaitRc(res) == IF res THEN <<0>> ELSE <<EINVAL>>

\* line 89, second half, and lines 90-94: the mutex is entered again and
\* res decides the return code; nothing is logged on either path
pthread_cond_wait_return(t) ==
  /\ pc[t] = "waking"
  /\ SleepEnd(t)
  /\ LET res == SleepResult(wakeCause[t])
     IN  waitRc' = [waitRc EXCEPT ![t] = CondWaitRc(res)]
  /\ waitLogged' = [waitLogged EXCEPT ![t] = FALSE]
  /\ pendingBcast' = pendingBcast \ {t}
  /\ pc' = [pc EXCEPT ![t] = "held"]
  /\ UNCHANGED <<waiters, wakeCause, lastBcast, budget>>
  /\ UNCHANGED <<onceVars, counterVars, threadVars>>

\* lines 97-100
pthread_cond_signal(t) ==
  /\ pc[t] \in {"idle", "held"}
  /\ budget.wakes < MaxWakes
  /\ \E S \in WakeConditionVariable : Wake(S, "signal")
  /\ budget' = [budget EXCEPT !.wakes = @ + 1]
  /\ UNCHANGED <<waitRc, waitLogged, pendingBcast, lastBcast>>
  /\ UNCHANGED <<onceVars, mutexVars, counterVars, threadVars>>

\* lines 102-105
pthread_cond_broadcast(t) ==
  /\ pc[t] \in {"idle", "held"}
  /\ budget.wakes < MaxWakes
  /\ \E S \in WakeAllConditionVariable : Wake(S, "broadcast")
  /\ pendingBcast' = pendingBcast \cup waiters
  /\ lastBcast' = waiters
  /\ budget' = [budget EXCEPT !.wakes = @ + 1]
  /\ UNCHANGED <<waitRc, waitLogged>>
  /\ UNCHANGED <<onceVars, mutexVars, counterVars, threadVars>>

\* the OS wakes a sleeping thread with no signal or broadcast
SpuriousWakeup(w) ==
  /\ w \in waiters
  /\ budget.spurious < MaxSpurious
  /\ Wake({w}, "spurious")
  /\ budget' = [budget EXCEPT !.spurious = @ + 1]
  /\ UNCHANGED <<waitRc, waitLogged, pendingBcast, lastBcast>>
  /\ UNCHANGED <<onceVars, mutexVars, counterVars, threadVars>>

\* the OS wait inside SleepConditionVariableCS fails
SleepFailure(w) ==
  /\ w \in waiters
  /\ budget.fails < MaxSleepFails
  /\ Wake({w}, "fail")
  /\ budget' = [budget EXCEPT !.fails = @ + 1]
  /\ UNCHANGED <<waitRc, waitLogged, pendingBcast, lastBcast>>
  /\ UNCHANGED <<onceVars, mutexVars, counterVars, threadVars>>

(***************************************************************************)
(* Clients of the condition variable: any thread may lock the mutex, and   *)
(* while it holds it wait, signal, broadcast or unlock; signal and         *)
(* broadcast may also be called without the mutex.                         *)
(***************************************************************************)
CondLockCall(t) ==
  /\ pc[t] = "idle"
  /\ budget.locks < MaxLocks
  /\ budget' = [budget EXCEPT !.locks = @ + 1]
  /\ pc' = [pc EXCEPT ![t] = "lock"]
  /\ UNCHANGED <<waiters, wakeCause, waitRc, waitLogged, pendingBcast, lastBcast>>
  /\ UNCHANGED <<onceVars, mutexVars, counterVars, threadVars>>

CondUnlockCall(t) ==
  /\ pc[t] = "held"
  /\ pc' = [pc EXCEPT ![t] = "unlock"]
  /\ UNCHANGED condVars
  /\ UNCHANGED <<onceVars, mutexVars, counterVars, threadVars>>

(***************************************************************************)
(* Clients that follow the predicate-recheck pattern.  A consumer does     *)
(*   lock; while (items == 0) wait; items--; unlock                        *)
(* and a producer  lock; items++; unlock;  signal and broadcast are called *)
(* by any thread at any time, with or without a change of items.           *)
(***************************************************************************)
LoopLockCall(t) ==
  /\ pc[t] = "idle"
  /\ stage[t] = "out"
  /\ budget.locks < MaxLoopLocks
  /\ budget' = [budget EXCEPT !.locks = @ + 1]
  /\ pc' = [pc EXCEPT ![t] = "lock"]
  /\ stage' = [stage EXCEPT ![t] = "in"]
  /\ UNCHANGED <<items, rewaited>>
  /\ UNCHANGED <<joined, rejoined, late, signals, lastDestroy, misuse>>
  /\ UNCHANGED <<waiters, wakeCause, waitRc, waitLogged, pendingBcast, lastBcast>>
  /\ UNCHANGED <<onceVars, mutexVars, counterVars, threadVars>>

\* the producer's change of the guarded state
Produce(t) ==
  /\ pc[t] = "held"
  /\ stage[t] = "in"
  /\ items < MaxItems
  /\ items' = items + 1
  /\ stage' = [stage EXCEPT ![t] = "produced"]
  /\ UNCHANGED rewaited
  /\ UNCHANGED <<joined, rejoined, late, signals, lastDestroy, misuse>>
  /\ UNCHANGED <<pc, onceVars, mutexVars, counterVars, condVars, threadVars>>

\* while (items == 0): the test, on entry and after every return of wait
LoopTest(t) ==
  /\ pc[t] = "held"
  /\ stage[t] \in {"in", "retest"}
  /\ stage' = [stage EXCEPT ![t] = IF items > 0 THEN "use" ELSE "wait"]
  /\ rewaited' = IF stage[t] = "retest" /\ items = 0
                 THEN rewaited \cup {t} ELSE rewaited
  /\ UNCHANGED items
  /\ UNCHANGED <<joined, rejoined, late, signals, lastDestroy, misuse>>
  /\ UNCHANGED <<pc, onceVars, mutexVars, counterVars, condVars, threadVars>>

\* the loop body: pthread_cond_wait, whose return leads back to the test
LoopWait(t) ==
  /\ stage[t] = "wait"
  /\ pthread_cond_wait_sleep(t)
  /\ stage' = [stage EXCEPT ![t] = "retest"]
  /\ UNCHANGED <<items, rewaited>>
  /\ UNCHANGED <<joined, rejoined, late, signals, lastDestroy, misuse>>

\* past the loop: the consumer takes an item
LoopUse(t) ==
  /\ pc[t] = "held"
  /\ stage[t] = "use"
  /\ items' = items - 1
  /\ stage' = [stage EXCEPT ![t] = "consumed"]
  /\ UNCHANGED rewaited
  /\ UNCHANGED <<joined, rejoined, late, signals, lastDestroy, misuse>>
  /\ UNCHANGED <<pc, onceVars, mutexVars, counterVars, condVars, threadVars>>

LoopUnlockCall(t) ==
  /\ stage[t] \in {"consumed", "produced"}
  /\ CondUnlockCall(t)
  /\ stage' = [stage EXCEPT ![t] = "out"]
  /\ UNCHANGED <<items, rewaited>>
  /\ UNCHANGED <<joined, rejoined, late, signals, lastDestroy, misuse>>

(***************************************************************************)
(* pthread_mutex_destroy (lines 53-55) and pthread_cond_destroy (lines     *)
(* 84-86) are "return 0": they read nothing and change nothing, so each is *)
(* the value it returns.  A client may call either at any time; the call   *)
(* is recorded with whether the object was in use.                         *)
(***************************************************************************)
pthread_mutex_destroy == 0

pthread_cond_destroy == 0

\* the mutex is held, or a thread is blocked in pthread_mutex_lock on it
MutexInUse == csOwner # NoOwner \/ \E u \in Threads : pc[u] = "lock"

\* a thread is waiting on the condition variable
CondInUse == waiters # {}

MutexDestroyCall(t) ==
  /\ pc[t] \in {"idle", "held"}
  /\ lastDestroy' = [obj |-> "mutex", busy |-> MutexInUse,
                     rc |-> pthread_mutex_destroy]
  /\ UNCHANGED <<joined, rejoined, late, signals, misuse, loopVars>>
  /\ UNCHANGED <<pc, onceVars, mutexVars, counterVars, condVars, threadVars>>

CondDestroyCall(t) ==
  /\ pc[t] \in {"idle", "held"}
  /\ lastDestroy' = [obj |-> "cond", busy |-> CondInUse,
                     rc |-> pthread_cond_destroy]
  /\ UNCHANGED <<joined, rejoined, late, signals, misuse, loopVars>>
  /\ UNCHANGED <<pc, onceVars, mutexVars, counterVars, condVars, threadVars>>

(***************************************************************************)
(* Pointer-sized and DWORD values.  A void* / uintptr_t is 64 bits wide    *)
(* and a DWORD 32; both are kept as 16-bit limbs, most significant first,  *)
(* so that every limb is a number TLC can hold.                            *)
(***************************************************************************)
Zero64 == <<0, 0, 0, 0>>
MaxDword == <<65535, 65535>>       \* 0xFFFFFFFF
STILL_ACTIVE == <<0, 259>>

\* the pointers the clients pass as arg: 0, 0xFFFFFFFF, 0x100000005
Pointers == {<<0, 0, 0, 0>>, <<0, 0, 65535, 65535>>, <<0, 1, 0, 5>>}

FitsDword(p) == p[1] = 0 /\ p[2] = 0

RECURSIVE BitOr(_, _)
BitOr(a, b) ==
  IF a = 0 THEN b
  ELSE IF b = 0 THEN a
  ELSE (IF a % 2 = 1 \/ b % 2 = 1 THEN 1 ELSE 0) + 2 * BitOr(a \div 2, b \div 2)

Or64(x, y) == [i \in 1..4 |-> BitOr(x[i], y[i])]

BoolToInt(b) == IF b THEN 1 ELSE 0

\* a small int converted to uintptr_t
ToUintptr(n) == <<0, 0, 0, n>>

\* line 20: reinterpret_cast<uintptr_t>(res) | 0xFFFFFFFF == 0xFFFFFFFF.
\* == binds tighter than |, so the operand of | is the int value of the
\* comparison 0xFFFFFFFF == 0xFFFFFFFF.
RassertExpr(res) == Or64(res, ToUintptr(BoolToInt(MaxDword = MaxDword)))

\* rassert(e) with e of integer type: the assertion holds when e is nonzero
RassertHolds(res) == RassertExpr(res) # Zero64

\* line 21: reinterpret_cast<DWORD>(res) keeps the low 32 bits
PointerToDwordLow16(p) == <<0, p[4]>>

PointerToDword(p) == <<p[3], p[4]>>

\* line 41: reinterpret_cast<void*>(exit_code) zero-extends
DwordToPointer(d) == <<0, 0, d[1], d[2]>>

\* the start_routine of the clients returns the pointer it was given
StartRoutine(arg) == arg

(***************************************************************************)
(* Thread objects.  The k-th pthread_create makes thread object k, and its *)
(* handle is k; nothing in this file closes a handle, so a handle stays    *)
(* valid once made.                                                        *)
(***************************************************************************)
ValidHandle(h) == h \in Creates /\ thr[h].st # "none"

\* the results with which WaitForSingleObject(h, INFINITE) can return now:
\* none while the thread of a valid handle has not ended
WaitForSingleObjectNoWait(h) ==
  IF ValidHandle(h) THEN {WAIT_OBJECT_0} ELSE {WAIT_FAILED}

WaitForSingleObject(h) ==
  IF ~ValidHandle(h) THEN {WAIT_FAILED}
  ELSE IF thr[h].st = "exited" THEN {WAIT_OBJECT_0}
  ELSE {}

GetExitCodeThread(h) ==
  IF thr[h].st = "exited" THEN thr[h].exit ELSE STILL_ACTIVE

logERR(c) == [c EXCEPT !.logged = TRUE]

(***************************************************************************)
(* pthread_create (lines 10-31), run by the creating thread.               *)
(***************************************************************************)
\* line 12: data = new data_t(start_routine, arg)
pthread_create_new(s, arg) ==
  /\ mpc = "idle"
  /\ ~aborted
  /\ nCreates < MaxCreates
  /\ nCreates' = nCreates + 1
  /\ data' = [data EXCEPT ![nCreates + 1] = [st |-> "live", arg |-> arg]]
  /\ cur' = [op |-> "create", slot |-> s, handle |-> NULL, k |-> nCreates + 1,
             want |-> FALSE, logged |-> FALSE, rc |-> 0, retval |-> <<>>]
  /\ mpc' = "create_thread"
  /\ UNCHANGED <<slot, thr, aborted>>
  /\ UNCHANGED <<pc, onceVars, mutexVars, counterVars, condVars>>

\* line 23: CreateThread starts a thread at go(data) and returns its handle,
\* or returns NULL when the OS cannot create the thread
pthread_create_thread ==
  /\ mpc = "create_thread"
  /\ ~aborted
  /\ \E created \in BOOLEAN :
       IF created
       THEN /\ thr' = [thr EXCEPT ![cur.k].st = "started"]
            /\ cur' = [cur EXCEPT !.handle = cur.k]
       ELSE /\ thr' = thr
            /\ cur' = [cur EXCEPT !.handle = NULL]
  /\ mpc' = "create_ret"
  /\ UNCHANGED <<slot, data, nCreates, aborted>>
  /\ UNCHANGED <<pc, onceVars, mutexVars, counterVars, condVars>>

\* lines 24-30
pthread_create_return ==
  /\ mpc = "create_ret"
  /\ ~aborted
  /\ IF cur.handle = NULL
     THEN /\ cur' = [logERR(cur) EXCEPT !.rc = EINVAL]
          /\ slot' = slot
     ELSE /\ slot' = [slot EXCEPT ![cur.slot] = cur.handle]
          /\ cur' = [cur EXCEPT !.rc = 0]
  /\ mpc' = "idle"
  /\ UNCHANGED <<thr, data, nCreates, aborted>>
  /\ UNCHANGED <<pc, onceVars, mutexVars, counterVars, condVars>>

(***************************************************************************)
(* The lambda go (lines 13-22), run by the created thread k.               *)
(***************************************************************************)
\* lines 14-18: read f and args out of data, delete data, call f(args)
go_start(k) ==
  /\ thr[k].st = "started"
  /\ ~aborted
  /\ thr' = [thr EXCEPT ![k].st = "in_entry", ![k].arg = data[k].arg]
  /\ data' = [data EXCEPT ![k].st = "freed"]
  /\ UNCHANGED <<mpc, cur, slot, nCreates, aborted>>
  /\ UNCHANGED <<pc, onceVars, mutexVars, counterVars, condVars>>

\* line 18: f(args) returns res
entry_return(k) ==
  /\ thr[k].st = "in_entry"
  /\ ~aborted
  /\ thr' = [thr EXCEPT ![k].st = "returned", ![k].res = StartRoutine(thr[k].arg)]
  /\ UNCHANGED <<mpc, cur, slot, data, nCreates, aborted>>
  /\ UNCHANGED <<pc, onceVars, mutexVars, counterVars, condVars>>

\* lines 20-21: the rassert, then the thread ends with exit code DWORD(res)
go_return(k) ==
  /\ thr[k].st = "returned"
  /\ ~aborted
  /\ IF RassertHolds(thr[k].res)
     THEN /\ thr' = [thr EXCEPT ![k].st = "exited",
                                ![k].exit = PointerToDword(thr[k].res)]
          /\ aborted' = aborted
     ELSE /\ thr' = thr
          /\ aborted' = TRUE
  /\ UNCHANGED <<mpc, cur, slot, data, nCreates>>
  /\ UNCHANGED <<pc, onceVars, mutexVars, counterVars, condVars>>

(***************************************************************************)
(* pthread_join (lines 33-45), run by the creating thread on the handle    *)
(* its variable s holds, with retval null (want = FALSE) or not.           *)
(***************************************************************************)
JoinCall(s, want) ==
  /\ mpc = "idle"
  /\ ~aborted
  /\ cur' = [op |-> "join", slot |-> s, handle |-> slot[s], k |-> 0, want |-> want,
             logged |-> FALSE, rc |-> 0, retval |-> <<>>]
  /\ mpc' = "join_wait"
  /\ UNCHANGED <<slot, thr, data, nCreates, aborted>>
  /\ UNCHANGED <<pc, onceVars, mutexVars, counterVars, condVars>>

\* lines 34-44; guarantee_winerr halts the process when GetExitCodeThread
\* fails, which it does on a handle that is not valid
pthread_join_wait ==
  /\ mpc = "join_wait"
  /\ ~aborted
  /\ \E res \in WaitForSingleObject(cur.handle) :
       LET done(rc, val) == [cur EXCEPT !.rc = rc, !.retval = val]
       IN  IF res # WAIT_OBJECT_0
           THEN cur' = done(EINVAL, <<>>) /\ aborted' = aborted
           ELSE IF cur.want
                THEN IF ValidHandle(cur.handle)
                     THEN /\ cur' = done(0, DwordToPointer(GetExitCodeThread(cur.handle)))
                          /\ aborted' = aborted
                     ELSE cur' = cur /\ aborted' = TRUE
                ELSE cur' = done(0, <<>>) /\ aborted' = aborted
  /\ mpc' = "idle"
  /\ UNCHANGED <<slot, thr, data, nCreates>>
  /\ UNCHANGED <<pc, onceVars, mutexVars, counterVars, condVars>>

(***************************************************************************)
(* Initial state: a guard that is PTHREAD_ONCE_INIT, an initialized and    *)
(* free mutex, an initialized condition variable with no waiter, no        *)
(* thread created.                                                         *)
(***************************************************************************)
Init ==
  /\ pc = [t \in Threads |-> "idle"]
  /\ complete = PTHREAD_ONCE_INIT
  /\ initStarted = 0
  /\ initFinished = 0
  /\ onceCalls = [t \in Threads |-> 0]
  /\ csOwner = NoOwner
  /\ csRecursion = 0
  /\ counter = 0
  /\ tmp = [t \in Threads |-> 0]
  /\ rounds = [t \in Threads |-> 0]
  /\ waiters = {}
  /\ wakeCause = [t \in Threads |-> "none"]
  /\ waitRc = [t \in Threads |-> NoRc]
  /\ waitLogged = [t \in Threads |-> FALSE]
  /\ pendingBcast = {}
  /\ lastBcast = {}
  /\ budget = [locks |-> 0, waits |-> 0, wakes |-> 0, spurious |-> 0, fails |-> 0]
  /\ mpc = "idle"
  /\ cur = [op |-> "none", slot |-> 0, handle |-> NULL, k |-> 0, want |-> FALSE,
            logged |-> FALSE, rc |-> 0, retval |-> <<>>]
  /\ slot = [s \in Slots |-> NULL]
  /\ thr = [k \in Creates |-> [st |-> "none", arg |-> <<>>, res |-> <<>>, exit |-> <<>>]]
  /\ data = [k \in Creates |-> [st |-> "unallocated", arg |-> <<>>]]
  /\ nCreates = 0
  /\ aborted = FALSE
  /\ joined = {}
  /\ rejoined = {}
  /\ late = {}
  /\ signals = 0
  /\ lastDestroy = [obj |-> "none", busy |-> FALSE, rc |-> 0]
  /\ misuse = [t \in Threads |-> "none"]
  /\ items = 0
  /\ stage = [t \in Threads |-> "out"]
  /\ rewaited = {}

\* some pthread_once call has returned: a thread is back from its call
SomeOnceReturned ==
  \E t \in Threads : onceCalls[t] >= 2 \/ (onceCalls[t] = 1 /\ pc[t] = "idle")

NextOnce ==
  \E t \in Threads :
    \/ /\ OnceCall(t)
       /\ late' = IF SomeOnceReturned THEN late \cup {t} ELSE late \ {t}
       /\ UNCHANGED <<joined, rejoined, signals, lastDestroy, misuse, loopVars>>
    \/ pthread_once_test(t) /\ UNCHANGED histVars
    \/ pthread_once_store(t) /\ UNCHANGED histVars
    \/ pthread_once_init_begin(t) /\ UNCHANGED histVars
    \/ pthread_once_init_end(t) /\ UNCHANGED histVars
    \/ pthread_once_return(t) /\ UNCHANGED histVars

SpecOnce == Init /\ [][NextOnce]_vars

NextMutex ==
  \E t \in Threads :
    \/ RoundLockCall(t) /\ UNCHANGED histVars
    \/ pthread_mutex_lock(t) /\ UNCHANGED histVars
    \/ RoundRead(t) /\ UNCHANGED histVars
    \/ RoundWrite(t) /\ UNCHANGED histVars
    \/ pthread_mutex_unlock(t) /\ UNCHANGED histVars

SpecMutex == Init /\ [][NextMutex]_vars

NextCond ==
  \E t \in Threads :
    \/ CondLockCall(t) /\ UNCHANGED histVars
    \/ pthread_mutex_lock(t) /\ UNCHANGED histVars
    \/ CondUnlockCall(t) /\ UNCHANGED histVars
    \/ pthread_mutex_unlock(t) /\ UNCHANGED histVars
    \/ pthread_cond_wait_sleep(t) /\ UNCHANGED histVars
    \/ pthread_cond_wait_return(t) /\ UNCHANGED histVars
    \/ pthread_cond_signal(t) /\ UNCHANGED histVars
    \/ pthread_cond_broadcast(t) /\ UNCHANGED histVars
    \/ SpuriousWakeup(t) /\ UNCHANGED histVars
    \/ SleepFailure(t) /\ UNCHANGED histVars

SpecCond == Init /\ [][NextCond]_vars

\* The scheduler runs every thread that can take a step: a thread that can
\* enter the mutex, that holds it, or that has been woken goes on.  Nothing
\* obliges the OS to produce a spurious wakeup or a failure, nor a client
\* to call signal or broadcast.
FairCond ==
  \A t \in Threads :
    /\ WF_vars(pthread_mutex_lock(t) /\ UNCHANGED histVars)
    /\ WF_vars(CondUnlockCall(t) /\ UNCHANGED histVars)
    /\ WF_vars(pthread_mutex_unlock(t) /\ UNCHANGED histVars)
    /\ WF_vars(pthread_cond_wait_return(t) /\ UNCHANGED histVars)

SpecCondFair == SpecCond /\ FairCond

\* The same clients with the pthread_cond_signal calls counted.
NextSignal ==
  \E t \in Threads :
    \/ CondLockCall(t) /\ UNCHANGED histVars
    \/ pthread_mutex_lock(t) /\ UNCHANGED histVars
    \/ CondUnlockCall(t) /\ UNCHANGED histVars
    \/ pthread_mutex_unlock(t) /\ UNCHANGED histVars
    \/ pthread_cond_wait_sleep(t) /\ UNCHANGED histVars
    \/ pthread_cond_wait_return(t) /\ UNCHANGED histVars
    \/ /\ pthread_cond_signal(t)
       /\ signals' = signals + 1
       /\ UNCHANGED <<joined, rejoined, late, lastDestroy, misuse, loopVars>>
    \/ pthread_cond_broadcast(t) /\ UNCHANGED histVars
    \/ SpuriousWakeup(t) /\ UNCHANGED histVars
    \/ SleepFailure(t) /\ UNCHANGED histVars

SpecSignal == Init /\ [][NextSignal]_vars

\* The clients of the mutex and the condition variable, with destroy calls.
NextDestroy ==
  \E t \in Threads :
    \/ CondLockCall(t) /\ UNCHANGED histVars
    \/ pthread_mutex_lock(t) /\ UNCHANGED histVars
    \/ CondUnlockCall(t) /\ UNCHANGED histVars
    \/ pthread_mutex_unlock(t) /\ UNCHANGED histVars
    \/ pthread_cond_wait_sleep(t) /\ UNCHANGED histVars
    \/ pthread_cond_wait_return(t) /\ UNCHANGED histVars
    \/ pthread_cond_signal(t) /\ UNCHANGED histVars
    \/ pthread_cond_broadcast(t) /\ UNCHANGED histVars
    \/ SpuriousWakeup(t) /\ UNCHANGED histVars
    \/ SleepFailure(t) /\ UNCHANGED histVars
    \/ MutexDestroyCall(t)
    \/ CondDestroyCall(t)

SpecDestroy == Init /\ [][NextDestroy]_vars

\* The clients of the mutex, one of which may lock it again while holding it.
NextRelock ==
  \E t \in Threads :
    \/ RoundLockCall(t) /\ UNCHANGED histVars
    \/ pthread_mutex_lock(t) /\ UNCHANGED histVars
    \/ RelockCall(t)
    \/ RoundRead(t) /\ UNCHANGED histVars
    \/ RoundWrite(t) /\ UNCHANGED histVars
    \/ pthread_mutex_unlock(t) /\ UNCHANGED histVars

SpecRelock == Init /\ [][NextRelock]_vars

\* The clients of the mutex, with unlock calls by threads that do not own it.
NextNonOwner ==
  \E t \in Threads :
    \/ RoundLockCall(t) /\ UNCHANGED histVars
    \/ pthread_mutex_lock(t) /\ UNCHANGED histVars
    \/ RoundRead(t) /\ UNCHANGED histVars
    \/ RoundWrite(t) /\ UNCHANGED histVars
    \/ NonOwnerUnlockCall(t)
    \/ /\ pthread_mutex_unlock(t)
       /\ misuse' = [misuse EXCEPT ![t] = IF @ = "calling" THEN "returned" ELSE @]
       /\ UNCHANGED <<joined, rejoined, late, signals, lastDestroy, loopVars>>

SpecNonOwner == Init /\ [][NextNonOwner]_vars

\* The wait-loop clients; the OS may wake a waiter spuriously or fail a wait.
NextLoop ==
  \E t \in Threads :
    \/ LoopLockCall(t)
    \/ pthread_mutex_lock(t) /\ UNCHANGED histVars
    \/ Produce(t)
    \/ LoopTest(t)
    \/ LoopWait(t)
    \/ pthread_cond_wait_return(t) /\ UNCHANGED histVars
    \/ LoopUse(t)
    \/ LoopUnlockCall(t)
    \/ pthread_mutex_unlock(t) /\ UNCHANGED histVars
    \/ pthread_cond_signal(t) /\ UNCHANGED histVars
    \/ pthread_cond_broadcast(t) /\ UNCHANGED histVars
    \/ SpuriousWakeup(t) /\ UNCHANGED histVars
    \/ SleepFailure(t) /\ UNCHANGED histVars

SpecLoop == Init /\ [][NextLoop]_vars

\* the creating thread's last call was op and has returned
Returned(op) == mpc = "idle" /\ cur.op = op

JoinSucceeded == Returned("join") /\ cur.rc = 0

\* pthread_join's wait and return, with the record of what it returned
JoinWaitStep ==
  /\ pthread_join_wait
  /\ joined' = IF JoinSucceeded' THEN joined \cup {cur.handle} ELSE joined
  /\ rejoined' = IF JoinSucceeded' /\ cur.handle \in joined
                 THEN rejoined \cup {cur.handle} ELSE rejoined
  /\ UNCHANGED <<late, signals, lastDestroy, misuse, loopVars>>

NextThread ==
  \/ \E s \in Slots, arg \in Pointers : pthread_create_new(s, arg) /\ UNCHANGED histVars
  \/ pthread_create_thread /\ UNCHANGED histVars
  \/ pthread_create_return /\ UNCHANGED histVars
  \/ \E s \in Slots, want \in BOOLEAN : JoinCall(s, want) /\ UNCHANGED histVars
  \/ JoinWaitStep
  \/ \E k \in Creates :
       \/ go_start(k) /\ UNCHANGED histVars
       \/ entry_return(k) /\ UNCHANGED histVars
       \/ go_return(k) /\ UNCHANGED histVars

SpecThread == Init /\ [][NextThread]_vars

\* The scheduler runs every thread that can take a step: a created thread
\* runs go, and a satisfied wait returns.  Whether the start routine
\* returns is up to the start routine.
FairThread ==
  /\ WF_vars(JoinWaitStep)
  /\ \A k \in Creates : /\ WF_vars(go_start(k) /\ UNCHANGED histVars)
                        /\ WF_vars(go_return(k) /\ UNCHANGED histVars)

SpecThreadFair == SpecThread /\ FairThread

Next == NextOnce \/ NextMutex \/ NextCond \/ NextSignal \/ NextDestroy
        \/ NextRelock \/ NextNonOwner \/ NextLoop
        \/ NextThread

Spec == Init /\ [][Next]_vars

AllOnceReturned == \A t \in Threads : pc[t] = "idle" /\ onceCalls[t] >= 1

(***************************************************************************)
(* C1: N >= 2 threads calling pthread_once concurrently on a not-started   *)
(* guard invoke the initializer exactly once in total: it is never         *)
(* entered a second time, and once every thread's call has returned it     *)
(* has been entered once.                                                  *)
(***************************************************************************)
C1_InitExactlyOnce ==
  /\ initStarted <= 1
  /\ AllOnceReturned => initStarted = 1

(***************************************************************************)
(* C2: no thread observes the guard completed, and no pthread_once call    *)
(* returns, before the initializer has fully returned.                     *)
(***************************************************************************)
C2_CompletedOnlyAfterInit ==
  /\ complete = PTHREAD_ONCE_COMPLETED => initFinished >= 1
  /\ \A t \in Threads : pc[t] = "once_ret" => initFinished >= 1

\* the threads between a returned pthread_mutex_lock and its unlock
Holders == {t \in Threads : pc[t] \in {"held", "incr", "unlock"}}

AllRoundsDone == \A t \in Threads : rounds[t] = Rounds /\ pc[t] = "idle"

(***************************************************************************)
(* C3: at most one thread is between a returned pthread_mutex_lock and     *)
(* its pthread_mutex_unlock, and when the N threads have each done their   *)
(* M lock-increment-unlock rounds the counter is exactly N*M.              *)
(***************************************************************************)
C3_MutualExclusion ==
  /\ Cardinality(Holders) <= 1
  /\ AllRoundsDone => counter = NumThreads * Rounds

C3_Witness ==
  /\ AllRoundsDone
  /\ counter = NumThreads * Rounds
  /\ NumThreads >= 2

(***************************************************************************)
(* C4: a thread whose entry function returned a pointer that does not fit  *)
(* in a DWORD never ends with the truncated value as its exit code: the    *)
(* assertion of the wrapper fails instead.                                 *)
(***************************************************************************)
C4_NoSilentTruncation ==
  \A k \in Creates :
    /\ thr[k].st = "exited" => FitsDword(thr[k].res)
    /\ thr[k].st = "exited" => DwordToPointer(thr[k].exit) = thr[k].res

(***************************************************************************)
(* C5: when pthread_join with a non-null retval has completed on the       *)
(* handle of a created thread whose entry function returned a value V      *)
(* that fits in a DWORD, it has returned 0 and stored exactly V.           *)
(***************************************************************************)
C5_JoinRoundTrip ==
  (/\ Returned("join")
   /\ cur.want
   /\ ValidHandle(cur.handle)
   /\ FitsDword(thr[cur.handle].res))
  => (cur.rc = 0 /\ cur.retval = thr[cur.handle].res)

C5_Witness ==
  /\ Returned("join")
  /\ cur.want
  /\ cur.rc = 0
  /\ ValidHandle(cur.handle)
  /\ thr[cur.handle].res = <<0, 0, 65535, 65535>>
  /\ cur.retval = <<0, 0, 65535, 65535>>

(***************************************************************************)
(* C6: pthread_join returns success only when the entry function of the    *)
(* target thread has returned (the thread has ended), and a join on a      *)
(* thread whose entry function has returned does return success.           *)
(***************************************************************************)
C6_JoinAfterEntry ==
  /\ [](JoinSucceeded => thr[cur.handle].st = "exited")
  /\ \A k \in Creates :
       (mpc = "join_wait" /\ cur.handle = k /\ thr[k].st \in {"returned", "exited"})
         ~> (JoinSucceeded /\ cur.handle = k)

C6_Witness ==
  /\ JoinSucceeded
  /\ ValidHandle(cur.handle)
  /\ thr[cur.handle].st = "exited"
  /\ cur.want = FALSE

(***************************************************************************)
(* C7: every thread that was queued in pthread_cond_wait when a            *)
(* pthread_cond_broadcast was called eventually returns from its wait      *)
(* (fair scheduling, every holder of the mutex releasing it).              *)
(***************************************************************************)
C7_BroadcastWakesAll ==
  \A t \in Threads : (t \in pendingBcast) ~> (t \notin pendingBcast)

C7_Witness ==
  /\ Cardinality(lastBcast) >= 2
  /\ pendingBcast = {}
  /\ \A t \in lastBcast : waitRc[t] = <<0>> /\ wakeCause[t] = "broadcast"

(***************************************************************************)
(* C8: when pthread_cond_wait has returned, whatever woke it and whatever  *)
(* it returns, the caller owns the mutex again; and a thread that has      *)
(* released the mutex inside wait and has not been woken is queued on the  *)
(* condition variable, so no signal can fall between the release and the   *)
(* queueing.                                                               *)
(***************************************************************************)
C8_WaitReacquiresMutex ==
  /\ \A t \in Threads :
       pc[t] = "held" /\ waitRc[t] # NoRc => csOwner = t /\ csRecursion = 1
  /\ \A t \in Threads : pc[t] = "sleeping" => t \in waiters /\ csOwner # t

C8_Witness ==
  \E t, u \in Threads :
    /\ waitRc[t] = <<EINVAL>> /\ wakeCause[t] = "fail" /\ pc[t] = "held" /\ csOwner = t
    /\ waitRc[u] = <<0>> /\ wakeCause[u] = "spurious" /\ pc[u] = "idle"
    /\ budget.wakes = 0

(***************************************************************************)
(* C9: when the OS cannot create the thread, pthread_create returns a      *)
(* nonzero code, the entry function is never invoked, and the caller's     *)
(* pthread_t does not denote a valid thread afterwards.                    *)
(***************************************************************************)
C9_FailedCreate ==
  (Returned("create") /\ cur.handle = NULL)
  => (/\ cur.rc # 0
      /\ thr[cur.k].st = "none"
      /\ ~ValidHandle(slot[cur.slot]))

(***************************************************************************)
(* C10: no operation returns an error code without having logged the OS    *)
(* failure first.                                                          *)
(***************************************************************************)
C10_ErrorsLogged ==
  /\ mpc = "idle" /\ cur.rc # 0 => cur.logged
  /\ \A t \in Threads : waitRc[t] = <<EINVAL>> => waitLogged[t]


\* the threads CreateThread has started
SpawnedThreads == {k \in Creates : thr[k].st # "none"}

\* the thread handles this layer holds open: CreateThread returned them
\* and nothing in the layer closes a handle
OpenHandles == {h \in Creates : ValidHandle(h)}

(***************************************************************************)
(* C11: each successful pthread_create allocates one thread handle and the *)
(* successful pthread_join of it releases it: once every spawned thread    *)
(* has been joined, the layer holds no thread handle open.                 *)
(***************************************************************************)
C11_HandlesReleased ==
  (SpawnedThreads # {} /\ SpawnedThreads \subseteq joined)
    => Cardinality(OpenHandles) = 0

(***************************************************************************)
(* C12: a second pthread_join on a handle that has already been joined     *)
(* successfully is rejected: no handle is joined with return value 0 more  *)
(* than once.                                                              *)
(***************************************************************************)
C12_SecondJoinRejected == rejoined = {}

(***************************************************************************)
(* C19: the heap record pthread_create allocates for (start_routine, arg)  *)
(* is freed exactly once on every path: by the new thread before it calls  *)
(* start_routine with the caller's arg, and on the failure of CreateThread *)
(* before pthread_create returns; it is never leaked.                      *)
(***************************************************************************)
C19_RecordFreedOnEveryPath ==
  /\ \A k \in Creates :
       thr[k].st \in {"in_entry", "returned", "exited"}
         => data[k].st = "freed" /\ thr[k].arg = data[k].arg
  /\ Returned("create") => (\A k \in 1..nCreates :
                              thr[k].st = "none" => data[k].st = "freed")


(***************************************************************************)
(* C20: the once-guard is monotonic and pthread_once is idempotent in      *)
(* sequence: once a pthread_once call on the guard has returned the guard  *)
(* is completed and stays so, and every call that begins after that, from  *)
(* any thread, goes from the test of the guard to its return without       *)
(* storing to the guard, without invoking an initializer and without       *)
(* changing the guard or the count of initializer runs.                    *)
(***************************************************************************)
C20_OnceIdempotent ==
  /\ [](SomeOnceReturned => complete = PTHREAD_ONCE_COMPLETED)
  /\ [](\A t \in late : pc[t] \in {"once_test", "once_ret", "idle"})
  /\ [][complete = PTHREAD_ONCE_COMPLETED
          => complete' = PTHREAD_ONCE_COMPLETED]_vars
  /\ [][\A t \in late' : pc'[t] # pc[t]
          => UNCHANGED <<complete, initStarted, initFinished>>]_vars

\* a call that began after another call had returned has itself returned,
\* and the initializer has run once
C20_Witness ==
  \E t \in late :
    /\ pc[t] = "idle"
    /\ onceCalls[t] >= 1
    /\ initStarted = 1
    /\ \E u \in Threads \ {t} : onceCalls[u] >= 1 /\ pc[u] = "idle"


(***************************************************************************)
(* C15: pthread_cond_wait returns an error code only when the OS wait      *)
(* itself failed; every normal wakeup (signal, broadcast or spurious)      *)
(* returns 0.                                                              *)
(***************************************************************************)
C15_WaitErrorOnlyOnFailure ==
  \A t \in Threads :
    waitRc[t] # NoRc =>
      /\ waitRc[t] \in {<<0>>, <<EINVAL>>}
      /\ waitRc[t] = <<EINVAL>> => wakeCause[t] = "fail"
      /\ wakeCause[t] \in {"signal", "broadcast", "spurious"} => waitRc[t] = <<0>>

\* two waits are over and their callers have unlocked: the spuriously woken
\* one returned 0 and the failed one returned EINVAL
C15_Witness ==
  \E t, v \in Threads :
    /\ wakeCause[t] = "spurious" /\ waitRc[t] = <<0>> /\ pc[t] = "idle"
    /\ wakeCause[v] = "fail" /\ waitRc[v] = <<EINVAL>> /\ pc[v] = "idle"


\* the step is a pthread_cond_signal call
SignalStep == signals' = signals + 1

\* the threads the step takes off the condition variable's queue
Woken == waiters \ waiters'

(***************************************************************************)
(* C14: pthread_cond_signal wakes at least one of the threads waiting on   *)
(* the condition variable when there is one, and has no effect when there  *)
(* is none: the signal is not remembered, so a thread leaves its wait      *)
(* because of a signal only in the step of a pthread_cond_signal call      *)
(* made while it was waiting, never because of an earlier one.             *)
(***************************************************************************)
C14_SignalWakesIfWaiterElseNothing ==
  /\ [][(SignalStep /\ waiters # {})
          => /\ Woken # {}
             /\ waiters' \subseteq waiters
             /\ \A w \in Woken : pc'[w] = "waking" /\ wakeCause'[w] = "signal"]_vars
  /\ [][(SignalStep /\ waiters = {})
          => UNCHANGED <<pc, mutexVars, waiters, wakeCause, waitRc,
                         pendingBcast, lastBcast>>]_vars
  /\ [][\A t \in Threads :
          (pc[t] = "sleeping" /\ pc'[t] # "sleeping" /\ wakeCause'[t] = "signal")
            => SignalStep /\ t \in waiters]_vars

\* the only signal found no thread waiting, and the thread that began to
\* wait after it is still asleep
C14_Witness ==
  /\ signals = 1
  /\ budget.wakes = 1
  /\ budget.waits = 1
  /\ \E t \in Threads : pc[t] = "sleeping" /\ t \in waiters
  /\ \A u \in Threads : wakeCause[u] = "none"


(***************************************************************************)
(* C13: pthread_mutex_destroy on a mutex that is held or has threads       *)
(* blocked in pthread_mutex_lock, and pthread_cond_destroy on a condition  *)
(* variable with waiters, is rejected or stops the process instead of      *)
(* returning success; destroying an object with no holder and no waiter    *)
(* returns success.                                                        *)
(***************************************************************************)
C13_DestroyInUseRejected ==
  lastDestroy.obj # "none" =>
    IF lastDestroy.busy
    THEN lastDestroy.rc # 0 \/ aborted
    ELSE lastDestroy.rc = 0


(***************************************************************************)
(* C17: a pthread_mutex_unlock by a thread that is not the owner of the    *)
(* mutex, an unlock of a mutex nobody holds included, stops the process    *)
(* with a fatal assertion: the call never returns success.                 *)
(***************************************************************************)
C17_NonOwnerUnlockFatal ==
  \A t \in Threads : misuse[t] = "returned" => aborted

(***************************************************************************)
(* C18: the mutex is non-reentrant: a pthread_mutex_lock by the thread     *)
(* that already owns the mutex does not return while the first ownership   *)
(* is in place, so the mutex is never held twice over, and one unlock by   *)
(* the owner always leaves the mutex free.                                 *)
(***************************************************************************)
C18_NonReentrant ==
  /\ csRecursion <= 1
  /\ \A t \in Threads : pc[t] = "idle" => csOwner # t


(***************************************************************************)
(* C16: a waiter that follows the predicate-recheck loop (lock; while not  *)
(* predicate: wait; use the guarded state; unlock) never gets past the     *)
(* loop with the predicate false and never sees the guarded state outside  *)
(* its invariant, whatever signal and broadcast calls are made without a   *)
(* change of state and whatever spurious wakeups happen: past the loop it  *)
(* owns the mutex and an item is there for it to take.                     *)
(***************************************************************************)
C16_PredicateLoopSafe ==
  /\ items \in 0..MaxItems
  /\ \A t \in Threads :
       stage[t] = "use" => items > 0 /\ pc[t] = "held" /\ csOwner = t

\* a consumer that woke with nothing to take and waited again has later
\* been woken and has taken an item
C16_Witness ==
  \E t \in rewaited :
    /\ stage[t] = "consumed"
    /\ waitRc[t] # NoRc
    /\ items = 0

====
